---- MODULE Spec2Model ----
(***************************************************************************)
(* A model of the go-blog post store (slug generation and allocation,      *)
(* create / update / delete against the SQLite posts table with its unique *)
(* slug index) and of the session / CSRF / auth-gate layer in front of it. *)
(*                                                                         *)
(* Strings whose content matters (titles, slugs, CSRF tokens) are          *)
(* sequences of one-character strings, so that generateSlug and            *)
(* fmt.Sprintf("%s-%d") are computed character by character.               *)
(***************************************************************************)
EXTENDS Integers, Sequences, FiniteSets, TLC

VARIABLES
    posts,      \* posts table: id -> [title, slug, content, published, created_at]
    nextID,     \* next AUTOINCREMENT id of the posts table
    pc,         \* per caller: where its running call stands
    req,        \* per caller: the arguments of its running call
    loc,        \* per caller: locals of createPost/updatePost/ensureUniqueSlug
    res,        \* per caller: what its last call returned, until it calls again
    hist,       \* history of the calls, read by the properties only
    sessions,   \* sessions table: token -> [user_id, expires_at]
    now,        \* time.Now(), in ticks
    settings,   \* settings table: key -> value
    schema,     \* what blog.db holds of the posts schema: the slug column,
                \* the unique index idx_posts_slug
    http,       \* per caller: the request it serves and the response it has written
    seen        \* history of the exchanges, read by the properties only: the
                \* tokens Login has handed out, those of them that
                \* requireAuth has since turned away, and the slugs that
                \* deletePost has freed

vars == <<posts, nextID, pc, req, loc, res, hist, sessions, now, settings, schema,
          http, seen>>

\* what the calls of the post store leave alone
web == <<sessions, now, settings, schema, http, seen>>

\* ------------------------------------------------------------------ bounds

\* The posts table never holds an id above MaxPosts (caps AUTOINCREMENT);
\* under concurrent callers the cap is MaxRacePosts.
MaxPosts == 3
MaxRacePosts == 3

\* Behind the HTTP handlers the posts table never holds an id above
\* MaxWebPosts, and the clock stops at MaxTime; behind all the routes
\* together it stops at MaxWebTime.
MaxWebPosts == 1
MaxTime == 2
MaxWebTime == 1

\* The concurrent callers (goroutines serving requests).
Procs == {1, 2}

\* ------------------------------------------------------------- characters

Lower == {"a", "b", "c", "d", "e", "f", "g", "h", "i", "j", "k", "l", "m",
          "n", "o", "p", "q", "r", "s", "t", "u", "v", "w", "x", "y", "z"}
Digits == <<"0", "1", "2", "3", "4", "5", "6", "7", "8", "9">>

\* strings.ToLower on one character (the upper-case letters the titles use)
ToLowerChar(c) ==
    CASE c = "A" -> "a"
      [] c = "F" -> "f"
      [] c = "H" -> "h"
      [] c = "W" -> "w"
      [] OTHER -> c

\* the class [a-z0-9-] of the regexp in generateSlug
IsSlugChar(c) ==
    \/ c \in Lower
    \/ \E i \in 1..10 : Digits[i] = c
    \/ c = "-"

\* strings.ToLower
ToLower(s) == [i \in 1..Len(s) |-> ToLowerChar(s[i])]

\* strings.ReplaceAll(slug, " ", "-") on one character
SpaceToHyphen(c) == IF c = " " THEN "-" ELSE c

\* strings.ReplaceAll(slug, " ", "-")
ReplaceSpaces(s) == [i \in 1..Len(s) |-> SpaceToHyphen(s[i])]

\* regexp `-+` replaced by "-": a hyphen directly after a hyphen is dropped
RECURSIVE CollapseHyphens(_)
CollapseHyphens(s) ==
    IF Len(s) <= 1 THEN s
    ELSE IF s[1] = "-" /\ s[2] = "-" THEN CollapseHyphens(Tail(s))
    ELSE <<s[1]>> \o CollapseHyphens(Tail(s))

RECURSIVE TrimLeft(_)
TrimLeft(s) ==
    IF s # <<>> /\ s[1] = "-" THEN TrimLeft(Tail(s)) ELSE s

RECURSIVE TrimRight(_)
TrimRight(s) ==
    IF s # <<>> /\ s[Len(s)] = "-" THEN TrimRight(SubSeq(s, 1, Len(s) - 1)) ELSE s

TrimHyphens_leftOnly(s) == TrimLeft(s)

\* strings.Trim(slug, "-")
TrimHyphens(s) == TrimRight(TrimLeft(s))

\* generateSlug: lowercase, spaces to hyphens, strip, collapse, trim
generateSlug(title) ==
    LET lowered  == ToLower(title)
        hyphened == ReplaceSpaces(lowered)
        stripped == SelectSeq(hyphened, IsSlugChar)
    IN  TrimHyphens(CollapseHyphens(stripped))

\* the decimal digits of n >= 0, as %d prints them
RECURSIVE Itoa(_)
Itoa(n) ==
    IF n < 10 THEN <<Digits[n + 1]>>
    ELSE Itoa(n \div 10) \o <<Digits[(n % 10) + 1]>>

Suffixed_offByOne(slug, suffix) == slug \o <<"-">> \o Itoa(suffix + 1)

\* fmt.Sprintf("%s-%d", slug, suffix)
Suffixed(slug, suffix) == slug \o <<"-">> \o Itoa(suffix)

\* ---------------------------------------------------------- reserved slugs

reservedSlugs ==
    { <<"a","d","m","i","n">>,
      <<"l","o","g","o","u","t">>,
      <<"f","e","e","d">>,
      <<"n","e","w">>,
      <<"e","d","i","t">>,
      <<"d","e","l","e","t","e">>,
      <<"s","e","t","t","i","n","g","s">>,
      <<"s","t","a","t","i","c">> }

isReservedSlug_none(slug) == FALSE

isReservedSlug(slug) == slug \in reservedSlugs

untitled == <<"u","n","t","i","t","l","e","d">>

\* ------------------------------------------------------------------ inputs

\* the titles of one caller at a time
SeqTitles ==
    { <<"F","e","e","d">>,      \* generates the reserved word feed
      <<"a">>,
      <<"a"," ","2">> }         \* generates a-2, the first suffixed form of a

\* titles that generate the empty slug, and one that does not
UntitledTitles == { <<"!">>, <<"?">>, <<"a">> }

Contents == {"c1", "c2"}

PostIDs == 1..MaxPosts

\* ------------------------------------------------------- the posts table

\* the slug column of a row stored without a slug: NULL, which no slug equals
Null == <<"NULL">>

\* the slugs the table holds
Slugs(tbl) == { tbl[i].slug : i \in DOMAIN tbl }

CountSlug_all(candidate, excludeID) ==
    Cardinality({ i \in DOMAIN posts : posts[i].slug = candidate })

\* SELECT COUNT(*) FROM posts WHERE slug = ? [AND id != ?]
CountSlug(candidate, excludeID) ==
    Cardinality({ i \in DOMAIN posts :
                    /\ posts[i].slug = candidate
                    /\ (excludeID > 0 => i # excludeID) })

UniqueViolation_noIndex(slug, id) == FALSE

\* idx_posts_slug, the unique index on posts(slug), where blog.db has it: a
\* write of slug to row id is refused when another row holds that slug
UniqueViolation(slug, id) ==
    /\ schema.index
    /\ \E i \in DOMAIN posts : i # id /\ posts[i].slug = slug

FallbackSlug_none(slug) == slug

\* if slug == "" { slug = "untitled" }
FallbackSlug(slug) == IF slug = <<>> THEN untitled ELSE slug

\* ---------------------------------------------------------- call records

NoReq == [op |-> "none", title |-> <<>>, content |-> "", published |-> FALSE, id |-> 0]
NoLoc == [slug |-> <<>>, candidate |-> <<>>, suffix |-> 0, excludeID |-> 0]
NoRes == [op |-> "none", slug |-> <<>>, err |-> ""]
NoRun == [base |-> <<>>, n |-> 0]

Free(p) == pc[p] \in {"idle", "done"}

\* the row of id, as a set: empty when there is none
RowOf(id) == IF id \in DOMAIN posts THEN {posts[id]} ELSE {}

\* the createPost calls that have not reached their INSERT yet
PendingCreates ==
    Cardinality({ q \in Procs : pc[q] \in {"unique", "insert"} /\ req[q].op = "create" })

\* room for one more createPost below the cap on ids
Room(cap) == nextID + PendingCreates <= cap

\* entry of ensureUniqueSlug(db, slug, excludeID) from caller p: the empty
\* slug returns at once, any other starts the loop with suffix 2
EnterEnsure(p, r, slug, excludeID, after) ==
    /\ req' = [req EXCEPT ![p] = r]
    /\ res' = [res EXCEPT ![p] = NoRes]
    /\ IF slug = <<>>
       THEN /\ loc' = [loc EXCEPT ![p] = [slug |-> slug, candidate |-> <<>>,
                                          suffix |-> 2, excludeID |-> excludeID]]
            /\ pc' = [pc EXCEPT ![p] = after]
       ELSE /\ loc' = [loc EXCEPT ![p] = [slug |-> slug, candidate |-> slug,
                                          suffix |-> 2, excludeID |-> excludeID]]
            /\ pc' = [pc EXCEPT ![p] = "unique"]

\* caller p returns (slug, err) from its running call
Return(p, slug, err) ==
    /\ pc' = [pc EXCEPT ![p] = "done"]
    /\ req' = [req EXCEPT ![p] = NoReq]
    /\ loc' = [loc EXCEPT ![p] = NoLoc]
    /\ res' = [res EXCEPT ![p] = [op |-> req[p].op, slug |-> slug, err |-> err]]

\* ------------------------------------------------------------ operations

\* createPost up to its call of ensureUniqueSlug
createPost(p, title, content, published) ==
    /\ Free(p)
    /\ EnterEnsure(p, [op |-> "create", title |-> title, content |-> content,
                       published |-> published, id |-> 0],
                   FallbackSlug(generateSlug(title)), 0, "insert")
    /\ hist' = [hist EXCEPT !.kept[p] = {}]
    /\ UNCHANGED <<posts, nextID>>

\* updatePost up to its call of ensureUniqueSlug; the history keeps the slug
\* of the row when the call leaves its title as it is
updatePost(p, id, title, content, published) ==
    /\ Free(p)
    /\ EnterEnsure(p, [op |-> "update", title |-> title, content |-> content,
                       published |-> published, id |-> id],
                   FallbackSlug(generateSlug(title)), id, "update")
    /\ hist' = [hist EXCEPT !.kept[p] =
                    { r.slug : r \in { x \in RowOf(id) : x.title = title } }]
    /\ UNCHANGED <<posts, nextID>>

\* a direct call of ensureUniqueSlug (the tests, migrateExistingSlugs)
ensureUniqueSlug(p, slug, excludeID) ==
    /\ Free(p)
    /\ EnterEnsure(p, [op |-> "ensure", title |-> slug, content |-> "",
                       published |-> FALSE, id |-> excludeID],
                   slug, excludeID, "return")
    /\ hist' = [hist EXCEPT !.kept[p] = {}]
    /\ UNCHANGED <<posts, nextID>>

\* one iteration of the loop of ensureUniqueSlug
ensureUniqueSlugLoop(p) ==
    /\ pc[p] = "unique"
    /\ LET l == loc[p]
           next == [l EXCEPT !.candidate = Suffixed(l.slug, l.suffix),
                             !.suffix = l.suffix + 1]
       IN  IF isReservedSlug(l.candidate)
           THEN /\ loc' = [loc EXCEPT ![p] = next]
                /\ pc' = pc
           ELSE IF CountSlug(l.candidate, l.excludeID) = 0
           THEN /\ loc' = loc
                /\ pc' = [pc EXCEPT ![p] =
                            CASE req[p].op = "create" -> "insert"
                              [] req[p].op = "update" -> "update"
                              [] req[p].op = "migrate" -> "setslug"
                              [] OTHER -> "return"]
           ELSE /\ loc' = [loc EXCEPT ![p] = next]
                /\ pc' = pc
    /\ UNCHANGED <<posts, nextID, req, res, hist>>

\* the return of a direct ensureUniqueSlug call
ensureUniqueSlugReturn(p) ==
    /\ pc[p] = "return"
    /\ Return(p, loc[p].candidate, "")
    /\ UNCHANGED <<posts, nextID, hist>>

\* the history counts the createPost calls of one base slug that stored
\* their post one after the other, no other write to the table in between
RunAfter(base) ==
    IF hist.run.base = base THEN [hist.run EXCEPT !.n = @ + 1] ELSE [base |-> base, n |-> 1]

\* INSERT INTO posts (title, slug, content, published), created_at defaulting
\* to CURRENT_TIMESTAMP, and createPost's return
insertPost(p) ==
    /\ pc[p] = "insert"
    /\ LET uniqueSlug == loc[p].candidate
       IN  IF UniqueViolation(uniqueSlug, 0)
           THEN /\ Return(p, <<>>, "inserting post")
                /\ UNCHANGED <<posts, nextID, hist>>
           ELSE /\ posts' = (nextID :> [title |-> req[p].title, slug |-> uniqueSlug,
                                        content |-> req[p].content,
                                        published |-> req[p].published,
                                        created_at |-> now]) @@ posts
                /\ nextID' = nextID + 1
                /\ Return(p, uniqueSlug, "")
                /\ hist' = [hist EXCEPT !.run = RunAfter(loc[p].slug)]

\* UPDATE posts SET title, slug, content, published WHERE id and updatePost's return
updateRow(p) ==
    /\ pc[p] = "update"
    /\ LET uniqueSlug == loc[p].candidate
           id == req[p].id
       IN  IF id \notin DOMAIN posts
           THEN /\ Return(p, uniqueSlug, "")
                /\ UNCHANGED <<posts, hist>>
           ELSE IF UniqueViolation(uniqueSlug, id)
           THEN /\ Return(p, <<>>, "updating post")
                /\ UNCHANGED <<posts, hist>>
           ELSE /\ posts' = [posts EXCEPT ![id] =
                               [title |-> req[p].title, slug |-> uniqueSlug,
                                content |-> req[p].content,
                                published |-> req[p].published,
                                created_at |-> posts[id].created_at]]
                /\ Return(p, uniqueSlug, "")
                /\ hist' = [hist EXCEPT !.run = NoRun]
    /\ UNCHANGED nextID

DeleteRows_orLowest(tbl, id) ==
    IF id \in DOMAIN tbl THEN [i \in DOMAIN tbl \ {id} |-> tbl[i]]
    ELSE [i \in { j \in DOMAIN tbl : \E k \in DOMAIN tbl : k < j } |-> tbl[i]]

\* DELETE FROM posts WHERE id = ?
DeleteRows(tbl, id) == [i \in { j \in DOMAIN tbl : j # id } |-> tbl[i]]

\* deletePost; the DELETE of an id without a row is no error
deletePost(p, id) ==
    /\ Free(p)
    /\ posts' = DeleteRows(posts, id)
    /\ pc' = [pc EXCEPT ![p] = "done"]
    /\ res' = [res EXCEPT ![p] = [NoRes EXCEPT !.op = "delete"]]
    /\ hist' = [hist EXCEPT !.kept[p] = {},
                            !.run = IF id \in DOMAIN posts THEN NoRun ELSE @]
    /\ UNCHANGED <<nextID, req, loc>>

\* ------------------------------------------------------------- startup

\* main runs as caller p: initDB with migrateDB and migrateExistingSlugs,
\* then seedDB, seedSettings and cleanupExpiredSessions, then it serves.
\* pc[p] is "start" once blog.db is open, "migrate" in the loop of
\* migrateExistingSlugs, "setslug" before its UPDATE, "seed" once initDB has
\* returned, "settings" before seedSettings, "purge" before
\* cleanupExpiredSessions, "routes" before the routes are registered,
\* "fatal" after log.Fatalf, "stopped" when the process has ended otherwise.

\* the sessions, the clock, the settings and the exchanges, which initDB
\* leaves alone
served == <<sessions, now, settings, http, seen>>

\* initDB up to the loop of migrateExistingSlugs: CREATE TABLE IF NOT EXISTS,
\* then migrateDB, which adds the slug column to a posts table without it
\* and returns at once when the column is there
initDB(p) ==
    /\ pc[p] = "start"
    /\ IF schema.slug
       THEN /\ pc' = [pc EXCEPT ![p] = "seed"]
            /\ UNCHANGED schema
       ELSE /\ pc' = [pc EXCEPT ![p] = "migrate"]
            /\ schema' = [schema EXCEPT !.slug = TRUE]
    /\ UNCHANGED <<posts, nextID, req, loc, res, hist, served>>

\* one turn of the loop of migrateExistingSlugs, up to its call of
\* ensureUniqueSlug: a row SELECTed WHERE slug IS NULL OR slug = '', in the
\* order the query happens to give
migrateExistingSlugs(p) ==
    /\ pc[p] = "migrate"
    /\ \E i \in { j \in DOMAIN posts : posts[j].slug = Null } :
          EnterEnsure(p, [op |-> "migrate", title |-> posts[i].title, content |-> "",
                          published |-> FALSE, id |-> i],
                      generateSlug(posts[i].title), i, "setslug")
    /\ UNCHANGED <<posts, nextID, hist>>

\* UPDATE posts SET slug = ? WHERE id = ?, before the index exists
migrateSetSlug(p) ==
    /\ pc[p] = "setslug"
    /\ posts' = [posts EXCEPT ![req[p].id].slug = loc[p].candidate]
    /\ pc' = [pc EXCEPT ![p] = "migrate"]
    /\ req' = [req EXCEPT ![p] = NoReq]
    /\ loc' = [loc EXCEPT ![p] = NoLoc]
    /\ UNCHANGED <<nextID, res, hist>>

\* the end of migrateDB, after the loop: CREATE UNIQUE INDEX idx_posts_slug,
\* which fails when two rows hold one slug; main ends on initDB's error
migrateDB(p) ==
    /\ pc[p] = "migrate"
    /\ \A i \in DOMAIN posts : posts[i].slug # Null
    /\ IF \E i, j \in DOMAIN posts : i # j /\ posts[i].slug = posts[j].slug
       THEN /\ pc' = [pc EXCEPT ![p] = "fatal"]
            /\ UNCHANGED schema
       ELSE /\ pc' = [pc EXCEPT ![p] = "seed"]
            /\ schema' = [schema EXCEPT !.index = TRUE]
    /\ UNCHANGED <<posts, nextID, req, loc, res, hist, served>>

\* the posts of seedDB
seedPosts ==
    << [Title |-> <<"H","e","y"," ","n","o","w">>,
        Content |-> "Everything is awesome!", Published |-> TRUE],
       [Title |-> <<"W","h","a","t","'","s"," ","t","h","e"," ","d","e","a","l","?">>,
        Content |-> "What is happening?!", Published |-> TRUE],
       [Title |-> <<"F","o","o","t","b","a","l","l">>,
        Content |-> "Niners and stuff.", Published |-> TRUE] >>

\* seedDB: into an empty posts table, INSERT INTO posts (title, content,
\* published) for each of seedPosts, which leaves the slug column NULL
seedDB(p) ==
    /\ pc[p] = "seed"
    /\ IF DOMAIN posts # {}
       THEN UNCHANGED <<posts, nextID>>
       ELSE /\ posts' = [i \in nextID..(nextID + Len(seedPosts) - 1) |->
                            [title |-> seedPosts[i - nextID + 1].Title,
                             slug |-> Null,
                             content |-> seedPosts[i - nextID + 1].Content,
                             published |-> seedPosts[i - nextID + 1].Published,
                             created_at |-> now]]
            /\ nextID' = nextID + Len(seedPosts)
    /\ pc' = [pc EXCEPT ![p] = "settings"]
    /\ UNCHANGED <<req, loc, res, hist>>

\* ------------------------------------------------------ the post queries

\* the Post a row scans into; slug.String of a NULL slug is ""
ScanPost(tbl, i) ==
    [id |-> i, title |-> tbl[i].title,
     slug |-> IF tbl[i].slug = Null THEN <<>> ELSE tbl[i].slug,
     content |-> tbl[i].content, published |-> tbl[i].published,
     created_at |-> tbl[i].created_at]

Before_idAscending(tbl, i, j) ==
    \/ tbl[i].created_at > tbl[j].created_at
    \/ tbl[i].created_at = tbl[j].created_at /\ i < j

\* ORDER BY created_at DESC, id DESC: row i comes before row j
Before(tbl, i, j) ==
    \/ tbl[i].created_at > tbl[j].created_at
    \/ tbl[i].created_at = tbl[j].created_at /\ i > j

\* the rows of ids in the order of the ORDER BY clause, scanned into Posts
RECURSIVE Ordered(_, _)
Ordered(tbl, ids) ==
    IF ids = {} THEN <<>>
    ELSE LET first == CHOOSE i \in ids : \A j \in ids \ {i} : Before(tbl, i, j)
         IN  <<ScanPost(tbl, first)>> \o Ordered(tbl, ids \ {first})

\* SELECT ... FROM posts ORDER BY created_at DESC, id DESC
getPosts(tbl) == Ordered(tbl, DOMAIN tbl)

\* SELECT ... FROM posts WHERE published = 1 ORDER BY created_at DESC, id DESC
getPublishedPosts(tbl) == Ordered(tbl, { i \in DOMAIN tbl : tbl[i].published })

\* SELECT ... FROM posts WHERE id = ?: the post as a set, empty for nil
getPostByID(tbl, id) == IF id \in DOMAIN tbl THEN {ScanPost(tbl, id)} ELSE {}

getPostBySlug_first(tbl, slug) ==
    IF DOMAIN tbl = {} THEN {}
    ELSE {ScanPost(tbl, CHOOSE i \in DOMAIN tbl : \A j \in DOMAIN tbl : i <= j)}

\* SELECT ... FROM posts WHERE slug = ?: the post as a set, empty for nil.
\* QueryRow scans the first row of the result; the unique index on slug
\* leaves at most one.
getPostBySlug(tbl, slug) ==
    LET ids == { i \in DOMAIN tbl : tbl[i].slug = slug }
    IN  IF ids = {} THEN {}
        ELSE {ScanPost(tbl, CHOOSE i \in ids : \A j \in ids : i <= j)}

\* ---------------------------------------------------------------- sessions

\* sessionDuration, in ticks of the clock: a tick is 24 hours
sessionDuration == 1

\* bcrypt.GenerateFromPassword, the salt left out
mustHashPassword(password) == <<"bcrypt", password>>

checkPassword_any(hash, password) == TRUE

\* bcrypt.CompareHashAndPassword
checkPassword(hash, password) == hash = mustHashPassword(password)

\* initAuth: ADMIN_USER and ADMIN_PASS left unset
adminUsername == "admin"
adminPassword == mustHashPassword("password")

\* the values generateToken can return for a session
Tokens == {"t1", "t2"}

\* generateToken: a token, or the error of rand.Read
GeneratedTokens ==
    { [token |-> t, err |-> FALSE] : t \in Tokens } \cup { [token |-> "", err |-> TRUE] }

getSession_unexpiring(token) ==
    IF token \in DOMAIN sessions
    THEN [session |-> { [token |-> token, user_id |-> sessions[token].user_id,
                         expires_at |-> sessions[token].expires_at] },
          err |-> FALSE]
    ELSE [session |-> {}, err |-> FALSE]

\* getSession: SELECT ... WHERE token = ? AND expires_at > now; no row is
\* (nil, nil), the empty set of sessions and no error
getSession(token) ==
    IF token \in DOMAIN sessions /\ sessions[token].expires_at > now
    THEN [session |-> { [token |-> token, user_id |-> sessions[token].user_id,
                         expires_at |-> sessions[token].expires_at] },
          err |-> FALSE]
    ELSE [session |-> {}, err |-> FALSE]

TokenTaken_replace(token) == FALSE

\* token TEXT PRIMARY KEY: an INSERT of a token the table holds is refused
TokenTaken(token) == token \in DOMAIN sessions

createSession_replace(gen, userID) ==
    IF gen.err
    THEN [token |-> "", err |-> TRUE, table |-> sessions]
    ELSE [token |-> gen.token, err |-> FALSE,
          table |-> (gen.token :> [user_id |-> userID,
                                   expires_at |-> now + sessionDuration]) @@ sessions]

\* createSession with the outcome gen of generateToken: the token it returns,
\* its error, and the sessions table it leaves
createSession(gen, userID) ==
    IF gen.err \/ TokenTaken(gen.token)
    THEN [token |-> "", err |-> TRUE, table |-> sessions]
    ELSE [token |-> gen.token, err |-> FALSE,
          table |-> (gen.token :> [user_id |-> userID,
                                   expires_at |-> now + sessionDuration]) @@ sessions]

deleteSession_all(token) == <<>>

\* deleteSession: DELETE FROM sessions WHERE token = ?
deleteSession(token) == [t \in DOMAIN sessions \ {token} |-> sessions[t]]

\* -------------------------------------------------------- requests, CSRF

NoForm == [csrf_token |-> <<>>, title |-> <<>>, content |-> "", action |-> "",
           intro |-> "", username |-> "", password |-> ""]

\* a request: its route and method, the {id} of its path, its session and
\* csrf cookies (the empty set when the cookie is absent), whether its body
\* fails r.ParseForm, and the values of its form
NoRequest == [route |-> "", method |-> "", id |-> <<>>, session |-> {}, csrf |-> {},
              parseErr |-> FALSE, form |-> NoForm]

\* the data a handler hands to the template of its page: Posts, Drafts, Post
\* (a set, empty without a post), Intro and IsAuthenticated
NoData == [Posts |-> <<>>, Drafts |-> <<>>, Post |-> {}, Intro |-> "",
           IsAuthenticated |-> FALSE]

\* a response: status, Location, the session and csrf cookies it sets (the
\* empty set when it sets none; the empty value clears the cookie), and the
\* data of the page
NoHTTP == [stage |-> "idle", r |-> NoRequest, status |-> 0, location |-> "",
           setSession |-> {}, setCsrf |-> {}, data |-> NoData]

\* the value of a cookie that is present
CookieValue(c) == CHOOSE v \in c : TRUE

\* getCSRFToken: the csrf cookie's value, "" without the cookie
getCSRFToken(r) == IF r.csrf = {} THEN <<>> ELSE CookieValue(r.csrf)

ConstantTimeCompare_lengthOnly(x, y) == IF Len(x) # Len(y) THEN 0 ELSE 1

\* subtle.ConstantTimeCompare: 1 for equal length and equal bytes, else 0
ConstantTimeCompare(x, y) ==
    IF Len(x) # Len(y) THEN 0
    ELSE IF \A i \in 1..Len(x) : x[i] = y[i] THEN 1
    ELSE 0

validateCSRF_skip(r) == TRUE

validateCSRF(r) ==
    LET cookieToken == getCSRFToken(r)
        formToken == r.form.csrf_token
    IN  IF cookieToken = <<>> \/ formToken = <<>> THEN FALSE
        ELSE ConstantTimeCompare(cookieToken, formToken) = 1

\* the values generateCSRFToken can return; <<>> stands for its error
CsrfTokens == { <<"x">> }

\* the value of one decimal digit
DigitValue(c) == CHOOSE d \in 0..9 : Digits[d + 1] = c

RECURSIVE AtoiDigits(_)
AtoiDigits(s) ==
    IF s = <<>> THEN 0
    ELSE AtoiDigits(SubSeq(s, 1, Len(s) - 1)) * 10 + DigitValue(s[Len(s)])

\* strconv.Atoi on an unsigned path value
Atoi(s) ==
    IF s = <<>> \/ \E i \in 1..Len(s) : \A d \in 1..10 : Digits[d] # s[i]
    THEN [n |-> 0, err |-> TRUE]
    ELSE [n |-> AtoiDigits(s), err |-> FALSE]

\* the response of caller p to request r
Answer(p, r, status, location, setSession, setCsrf) ==
    http' = [http EXCEPT ![p] = [stage |-> "answered", r |-> r, status |-> status,
                                 location |-> location, setSession |-> setSession,
                                 setCsrf |-> setCsrf, data |-> NoData]]

\* http.Error(w, message, status)
Error(p, r, status) == Answer(p, r, status, "", {}, {})

\* http.Redirect(w, r, location, http.StatusSeeOther)
Redirect(p, r, location) == Answer(p, r, 303, location, {}, {})

\* a page rendered with ensureCSRFToken: the csrf cookie is set to a new
\* token when the request has none and a token could be generated
Render(p, r, gen) ==
    Answer(p, r, 200, "", {},
           IF getCSRFToken(r) = <<>> /\ gen # <<>> THEN {gen} ELSE {})

\* the page of Home and Detail, rendered with ensureCSRFToken from data
Page(p, r, gen, data) ==
    http' = [http EXCEPT ![p] =
                [stage |-> "answered", r |-> r, status |-> 200, location |-> "",
                 setSession |-> {},
                 setCsrf |-> IF getCSRFToken(r) = <<>> /\ gen # <<>> THEN {gen} ELSE {},
                 data |-> data]]

\* the tables and the clock, the calls of the post store
tables == <<posts, nextID, sessions, settings, schema, now>>
calls == <<pc, req, loc, res, hist>>

\* ---------------------------------------------------------------- handlers

requireAuth_open(p, r, next) == next

\* requireAuth: without a session cookie, or when getSession fails or finds
\* no session, redirect to /login; otherwise call the wrapped handler
requireAuth(p, r, next) ==
    IF r.session = {}
    THEN Redirect(p, r, "/login") /\ UNCHANGED <<tables, calls>>
    ELSE LET got == getSession(CookieValue(r.session))
         IN  IF got.err \/ got.session = {}
             THEN Redirect(p, r, "/login") /\ UNCHANGED <<tables, calls>>
             ELSE next

isAuthenticated_anyCookie(r) == r.session # {}

\* isAuthenticated: the request has a session cookie and getSession finds its
\* session, without an error
isAuthenticated(r) ==
    IF r.session = {} THEN FALSE
    ELSE LET got == getSession(CookieValue(r.session))
         IN  ~got.err /\ got.session # {}

\* getSetting: the value of key, "" without a row
getSetting(key) == IF key \in DOMAIN settings THEN settings[key] ELSE ""

\* Blog.Home, the handler of every path no other route takes; r.id is the
\* path after the first slash
Home(p, r, gen) ==
    /\ IF r.id # <<>>
       THEN Error(p, r, 404)
       ELSE LET isAuth == isAuthenticated(r)
                allPosts == getPosts(posts)
            IN  Page(p, r, gen,
                     [Posts |-> IF isAuth
                                THEN SelectSeq(allPosts, LAMBDA x : x.published)
                                ELSE getPublishedPosts(posts),
                      Drafts |-> IF isAuth
                                 THEN SelectSeq(allPosts, LAMBDA x : ~x.published)
                                 ELSE <<>>,
                      Post |-> {},
                      Intro |-> getSetting("intro"),
                      IsAuthenticated |-> isAuth])
    /\ UNCHANGED <<tables, calls>>

\* Blog.Detail
Detail(p, r, gen) ==
    /\ LET id == Atoi(r.id)
           post == getPostByID(posts, id.n)
           isAuth == isAuthenticated(r)
       IN  IF id.err
           THEN Error(p, r, 400)
           ELSE IF post = {}
           THEN Error(p, r, 404)
           ELSE IF (\E x \in post : ~x.published) /\ ~isAuth
           THEN Error(p, r, 404)
           ELSE Page(p, r, gen, [NoData EXCEPT !.Post = post,
                                               !.IsAuthenticated = isAuth])
    /\ UNCHANGED <<tables, calls>>

\* the handler goes on in the post store; its response follows the store's
Serving(p, r) ==
    http' = [http EXCEPT ![p] = [NoHTTP EXCEPT !.stage = "serving", !.r = r]]

\* Blog.Create; gen is the outcome of generateCSRFToken
Create(p, r, gen) ==
    IF r.method = "GET"
    THEN Render(p, r, gen) /\ UNCHANGED <<tables, calls>>
    ELSE IF r.parseErr
    THEN Error(p, r, 400) /\ UNCHANGED <<tables, calls>>
    ELSE IF ~validateCSRF(r)
    THEN Error(p, r, 403) /\ UNCHANGED <<tables, calls>>
    ELSE IF r.form.title = <<>> \/ r.form.content = ""
    THEN Error(p, r, 400) /\ UNCHANGED <<tables, calls>>
    ELSE /\ createPost(p, r.form.title, r.form.content, r.form.action = "publish")
         /\ Serving(p, r)
         /\ UNCHANGED <<sessions, settings, schema, now>>

\* Blog.Edit
Edit(p, r, gen) ==
    LET id == Atoi(r.id)
    IN  IF id.err
        THEN Error(p, r, 400) /\ UNCHANGED <<tables, calls>>
        ELSE IF r.method = "GET"
        THEN /\ IF RowOf(id.n) = {} THEN Error(p, r, 404) ELSE Render(p, r, gen)
             /\ UNCHANGED <<tables, calls>>
        ELSE IF r.parseErr
        THEN Error(p, r, 400) /\ UNCHANGED <<tables, calls>>
        ELSE IF ~validateCSRF(r)
        THEN Error(p, r, 403) /\ UNCHANGED <<tables, calls>>
        ELSE IF r.form.title = <<>> \/ r.form.content = ""
        THEN Error(p, r, 400) /\ UNCHANGED <<tables, calls>>
        ELSE /\ updatePost(p, id.n, r.form.title, r.form.content, r.form.action = "publish")
             /\ Serving(p, r)
             /\ UNCHANGED <<sessions, settings, schema, now>>

\* the response of Create and Edit once createPost or updatePost has returned
Respond(p) ==
    /\ http[p].stage = "serving"
    /\ pc[p] = "done"
    /\ IF res[p].err # "" THEN Error(p, http[p].r, 500) ELSE Redirect(p, http[p].r, "/")
    /\ UNCHANGED <<tables, calls, seen>>

\* Blog.Delete
Delete(p, r, gen) ==
    LET id == Atoi(r.id)
    IN  IF id.err
        THEN Error(p, r, 400) /\ UNCHANGED <<tables, calls>>
        ELSE IF r.method = "GET"
        THEN /\ IF RowOf(id.n) = {} THEN Error(p, r, 404) ELSE Render(p, r, gen)
             /\ UNCHANGED <<tables, calls>>
        ELSE IF r.parseErr
        THEN Error(p, r, 400) /\ UNCHANGED <<tables, calls>>
        ELSE IF ~validateCSRF(r)
        THEN Error(p, r, 403) /\ UNCHANGED <<tables, calls>>
        ELSE /\ deletePost(p, id.n)
             /\ Redirect(p, r, "/")
             /\ UNCHANGED <<sessions, settings, schema, now>>

\* setSetting: INSERT ... ON CONFLICT(key) DO UPDATE
setSetting(key, value) == (key :> value) @@ settings

\* Blog.Settings
Settings(p, r, gen) ==
    IF r.method = "GET"
    THEN Render(p, r, gen) /\ UNCHANGED <<tables, calls>>
    ELSE IF r.parseErr
    THEN Error(p, r, 400) /\ UNCHANGED <<tables, calls>>
    ELSE IF ~validateCSRF(r)
    THEN Error(p, r, 403) /\ UNCHANGED <<tables, calls>>
    ELSE /\ settings' = setSetting("intro", r.form.intro)
         /\ Redirect(p, r, "/")
         /\ UNCHANGED <<posts, nextID, sessions, schema, now, calls>>

\* Blog.Login; tok is the outcome of generateToken
Login(p, r, gen, tok) ==
    IF r.method = "GET"
    THEN Render(p, r, gen) /\ UNCHANGED <<tables, calls>>
    ELSE IF r.parseErr
    THEN Error(p, r, 400) /\ UNCHANGED <<tables, calls>>
    ELSE IF ~validateCSRF(r)
    THEN Error(p, r, 403) /\ UNCHANGED <<tables, calls>>
    ELSE IF \/ r.form.username # adminUsername
            \/ ~checkPassword(adminPassword, r.form.password)
    THEN Error(p, r, 401) /\ UNCHANGED <<tables, calls>>
    ELSE LET made == createSession(tok, 1)
         IN  IF made.err
             THEN Error(p, r, 500) /\ UNCHANGED <<tables, calls>>
             ELSE /\ sessions' = made.table
                  /\ Answer(p, r, 303, "/", {made.token}, {})
                  /\ UNCHANGED <<posts, nextID, settings, schema, now, calls>>

\* Blog.Logout; dbErr says that the DELETE of deleteSession fails, an error
\* the handler does not look at
Logout(p, r, dbErr) ==
    IF r.method # "POST"
    THEN Redirect(p, r, "/") /\ UNCHANGED <<tables, calls>>
    ELSE IF r.parseErr
    THEN Error(p, r, 400) /\ UNCHANGED <<tables, calls>>
    ELSE IF ~validateCSRF(r)
    THEN Error(p, r, 403) /\ UNCHANGED <<tables, calls>>
    ELSE /\ sessions' = IF r.session # {} /\ ~dbErr
                        THEN deleteSession(CookieValue(r.session))
                        ELSE sessions
         /\ Answer(p, r, 303, "/", {""}, {})
         /\ UNCHANGED <<posts, nextID, settings, schema, now, calls>>

\* the handler has returned: the response is on its way, the exchange is over
Finish(p) ==
    /\ http[p].stage = "answered"
    /\ http' = [http EXCEPT ![p] = NoHTTP]
    /\ UNCHANGED <<tables, calls, seen>>

\* a caller takes its next request once the last exchange is over
Ready(p) == Free(p) /\ http[p].stage = "idle"

DeleteExpired_soon(tbl, t) ==
    [u \in { v \in DOMAIN tbl : ~(tbl[v].expires_at < t + 2) } |-> tbl[u]]

\* DELETE FROM sessions WHERE expires_at < t
DeleteExpired(tbl, t) ==
    [u \in { v \in DOMAIN tbl : ~(tbl[v].expires_at < t) } |-> tbl[u]]

\* cleanupExpiredSessions, which main calls before it serves:
\* DELETE FROM sessions WHERE expires_at < now
cleanupExpiredSessions ==
    /\ \A p \in Procs : Ready(p)
    /\ sessions' = DeleteExpired(sessions, now)
    /\ UNCHANGED <<posts, nextID, settings, schema, now, calls, http, seen>>

\* the intro that seedSettings stores
defaultIntro == "Lorem ipsum"

\* seedSettings: INSERT the default intro unless the settings hold an intro
seedSettings(p) ==
    /\ pc[p] = "settings"
    /\ settings' = IF "intro" \in DOMAIN settings THEN settings
                   ELSE setSetting("intro", defaultIntro)
    /\ pc' = [pc EXCEPT ![p] = "purge"]
    /\ UNCHANGED <<posts, nextID, req, loc, res, hist, sessions, schema, now, http, seen>>

\* main's call of cleanupExpiredSessions; dbErr says that its DELETE fails,
\* which main answers with log.Fatalf
mainCleanup(p, dbErr) ==
    /\ pc[p] = "purge"
    /\ IF dbErr
       THEN /\ pc' = [pc EXCEPT ![p] = "fatal"]
            /\ UNCHANGED sessions
       ELSE /\ pc' = [pc EXCEPT ![p] = "routes"]
            /\ sessions' = DeleteExpired(sessions, now)
    /\ UNCHANGED <<posts, nextID, req, loc, res, hist, settings, schema, now, http, seen>>

\* NewBlog, the routes, http.ListenAndServe: the callers serve from here on
ListenAndServe(p) ==
    /\ pc[p] = "routes"
    /\ pc' = [pc EXCEPT ![p] = "idle"]
    /\ UNCHANGED <<posts, nextID, req, loc, res, hist, tables, http, seen>>

\* the positions of main between two of its calls
Between == {"start", "migrate", "seed", "settings", "purge", "routes"}

\* the process ends, by a signal or a crash, between two calls of main or
\* between two exchanges; blog.db stays as it is
exit(p) ==
    /\ \/ pc[p] \in Between
       \/ \A q \in Procs : Ready(q)
    /\ pc' = [pc EXCEPT ![p] = "stopped"]
    /\ res' = [res EXCEPT ![p] = NoRes]
    /\ UNCHANGED <<posts, nextID, req, loc, hist, sessions, settings, schema, now,
                   http, seen>>

\* the process is started again: main opens blog.db
main(p) ==
    /\ pc[p] \in {"fatal", "stopped"}
    /\ pc' = [pc EXCEPT ![p] = "start"]
    /\ UNCHANGED <<posts, nextID, req, loc, res, hist, sessions, settings, schema, now,
                   http, seen>>

\* time passes, between the exchanges and while a handler is in the post store
Tick ==
    /\ now < MaxTime
    /\ \A p \in Procs : http[p].stage # "answered"
    /\ now' = now + 1
    /\ UNCHANGED <<posts, nextID, sessions, settings, schema, calls, http, seen>>

\* the history of the exchange caller p has answered in this step: Login's
\* cookie is a token handed out; a token handed out before and sent to
\* /login by requireAuth has been turned away
Note(p) ==
    seen' = [minted |-> seen.minted \cup (http'[p].setSession \ {""}),
             reported |-> seen.reported \cup
                 IF /\ http'[p].stage = "answered" /\ http'[p].status = 303
                    /\ http'[p].location = "/login"
                 THEN http'[p].r.session \cap seen.minted
                 ELSE {},
             freed |-> seen.freed]

\* the history of deletePost(id): the deleted post's slug is freed for its
\* base, the slug its title generates, when the slug is a suffixed form of
\* the base and another post whose title generates that base stays
NoteFreed(id) ==
    seen' = [seen EXCEPT !.freed = @ \cup
                { <<FallbackSlug(generateSlug(x.title)), x.slug>> :
                    x \in { y \in RowOf(id) :
                              /\ y.slug # FallbackSlug(generateSlug(y.title))
                              /\ \E j \in DOMAIN posts \ {id} :
                                     generateSlug(posts[j].title) = generateSlug(y.title) } }]

\* ----------------------------------------------------------- specification

\* the state once initDB has run on a fresh database: no post, no call running
Init ==
    /\ posts = <<>>
    /\ nextID = 1
    /\ pc = [p \in Procs |-> "idle"]
    /\ req = [p \in Procs |-> NoReq]
    /\ loc = [p \in Procs |-> NoLoc]
    /\ res = [p \in Procs |-> NoRes]
    /\ hist = [kept |-> [p \in Procs |-> {}], run |-> NoRun]
    /\ sessions = <<>>
    /\ now = 0
    /\ settings = <<>>
    /\ schema = [slug |-> TRUE, index |-> TRUE]
    /\ http = [p \in Procs |-> NoHTTP]
    /\ seen = [minted |-> {}, reported |-> {}, freed |-> {}]

\* the title concurrent callers submit: the same one, so that they collide
RaceTitles == { <<"a">> }

\* concurrent callers of the post store
Next ==
    \/ \E p \in Procs, t \in RaceTitles : Room(MaxRacePosts) /\ createPost(p, t, "c1", TRUE) /\ UNCHANGED web
    \/ \E p \in Procs, i \in 1..MaxRacePosts, t \in RaceTitles : updatePost(p, i, t, "c1", TRUE) /\ UNCHANGED web
    \/ \E p \in Procs : ensureUniqueSlugLoop(p) /\ UNCHANGED web
    \/ \E p \in Procs : insertPost(p) /\ UNCHANGED web
    \/ \E p \in Procs : updateRow(p) /\ UNCHANGED web
    \/ \E p \in Procs, i \in 1..MaxRacePosts : deletePost(p, i) /\ UNCHANGED web

Spec == Init /\ [][Next]_vars

\* one caller at a time: reserved, colliding and suffixed bases
NextSeq ==
    \/ \E t \in SeqTitles : Room(MaxPosts) /\ createPost(1, t, "c1", TRUE) /\ UNCHANGED web
    \/ \E i \in PostIDs, t \in SeqTitles : updatePost(1, i, t, "c1", TRUE) /\ UNCHANGED web
    \/ ensureUniqueSlugLoop(1) /\ UNCHANGED web
    \/ insertPost(1) /\ UNCHANGED web
    \/ updateRow(1) /\ UNCHANGED web
    \/ \E i \in PostIDs : deletePost(1, i) /\ UNCHANGED web

SpecSeq == Init /\ [][NextSeq]_vars

\* the bases of the direct ensureUniqueSlug calls
BaseSlugs == { <<>>, untitled }

\* one caller at a time: titles without a slug, direct ensureUniqueSlug calls
NextUntitled ==
    \/ \E t \in UntitledTitles : Room(MaxPosts) /\ createPost(1, t, "c1", TRUE) /\ UNCHANGED web
    \/ \E i \in PostIDs, t \in UntitledTitles : updatePost(1, i, t, "c1", TRUE) /\ UNCHANGED web
    \/ \E s \in BaseSlugs, i \in 0..1 : ensureUniqueSlug(1, s, i) /\ UNCHANGED web
    \/ ensureUniqueSlugLoop(1) /\ UNCHANGED web
    \/ ensureUniqueSlugReturn(1) /\ UNCHANGED web
    \/ insertPost(1) /\ UNCHANGED web
    \/ updateRow(1) /\ UNCHANGED web
    \/ \E i \in PostIDs : deletePost(1, i) /\ UNCHANGED web

SpecUntitled == Init /\ [][NextUntitled]_vars

\* ------------------------------------------------------- the HTTP server

SessionCookies == {{}} \cup { {t} : t \in Tokens }
CsrfCookies == { {}, {<<"x">>} }

\* csrf cookie and csrf_token form value: no cookie, no form value, two
\* different values, twice the same value
GoodPair == [cookie |-> {<<"x">>}, form |-> <<"x">>]
CsrfPairs ==
    { [cookie |-> {}, form |-> <<"x">>],
      [cookie |-> {<<"x">>}, form |-> <<>>],
      [cookie |-> {<<"x">>}, form |-> <<"y">>],
      GoodPair }

\* the {id} of a path: the ids of the posts and a value that is no number
PathIDs == { Itoa(i) : i \in 1..MaxWebPosts } \cup { <<"x">> }

Get(route, id, s, c) ==
    [NoRequest EXCEPT !.route = route, !.method = "GET", !.id = id,
                      !.session = s, !.csrf = c]

Post(route, id, s, pair) ==
    [NoRequest EXCEPT !.route = route, !.method = "POST", !.id = id, !.session = s,
                      !.csrf = pair.cookie, !.form.csrf_token = pair.form]

\* a POST whose body r.ParseForm rejects
Malformed(r) == [r EXCEPT !.parseErr = TRUE]

\* title, content and action of the post forms
PostForm(r, title) ==
    [r EXCEPT !.form.title = title, !.form.content = "c1", !.form.action = "publish"]

NewRequests ==
    { Get("new", <<>>, s, c) : s \in SessionCookies, c \in CsrfCookies }
    \cup { PostForm(Post("new", <<>>, s, pr), t) :
             s \in SessionCookies, pr \in CsrfPairs, t \in { <<>>, <<"a">> } }
    \cup { Malformed(Post("new", <<>>, s, GoodPair)) : s \in SessionCookies }

EditRequests ==
    { Get("edit", i, s, c) : i \in PathIDs, s \in SessionCookies, c \in CsrfCookies }
    \cup { PostForm(Post("edit", i, s, pr), <<"a">>) :
             i \in PathIDs, s \in SessionCookies, pr \in CsrfPairs }
    \cup { Malformed(Post("edit", i, s, GoodPair)) : i \in PathIDs, s \in SessionCookies }

DeleteRequests ==
    { Get("delete", i, s, c) : i \in PathIDs, s \in SessionCookies, c \in CsrfCookies }
    \cup { Post("delete", i, s, pr) : i \in PathIDs, s \in SessionCookies, pr \in CsrfPairs }
    \cup { Malformed(Post("delete", i, s, GoodPair)) : i \in PathIDs, s \in SessionCookies }

SettingsRequests ==
    { Get("settings", <<>>, s, c) : s \in SessionCookies, c \in CsrfCookies }
    \cup { [Post("settings", <<>>, s, pr) EXCEPT !.form.intro = "i1"] :
             s \in SessionCookies, pr \in CsrfPairs }
    \cup { Malformed(Post("settings", <<>>, s, GoodPair)) : s \in SessionCookies }

Credentials ==
    { [username |-> "admin", password |-> "password"],
      [username |-> "admin", password |-> "guess"],
      [username |-> "eve", password |-> "password"] }

LoginRequests ==
    { Get("login", <<>>, {}, c) : c \in CsrfCookies }
    \cup { [Post("login", <<>>, {}, pr) EXCEPT !.form.username = c.username,
                                              !.form.password = c.password] :
             pr \in CsrfPairs, c \in Credentials }
    \cup { Malformed(Post("login", <<>>, {}, GoodPair)) }

LogoutRequests ==
    { Get("logout", <<>>, s, {}) : s \in SessionCookies }
    \cup { Post("logout", <<>>, s, pr) : s \in SessionCookies, pr \in CsrfPairs }
    \cup { Malformed(Post("logout", <<>>, {}, GoodPair)) }

\* the outcomes of generateCSRFToken that request r can meet: it is called
\* for a GET without csrf cookie
CsrfGen(r) ==
    IF r.method = "GET" /\ r.csrf = {} THEN CsrfTokens \cup { <<>> } ELSE { <<>> }

\* the outcomes of generateToken that request r can meet: it is called for a
\* POST to /login
TokenGen(r) ==
    IF r.method = "POST" THEN GeneratedTokens ELSE { [token |-> "", err |-> TRUE] }

\* main's routes behind one caller, the clock and the purge
NextWeb ==
    \/ \E r \in NewRequests : \E g \in CsrfGen(r) :
          /\ Ready(1)
          /\ r.method = "POST" => Room(MaxWebPosts)
          /\ requireAuth(1, r, Create(1, r, g))
          /\ UNCHANGED seen
    \/ \E r \in EditRequests : \E g \in CsrfGen(r) :
          Ready(1) /\ requireAuth(1, r, Edit(1, r, g)) /\ UNCHANGED seen
    \/ \E r \in DeleteRequests : \E g \in CsrfGen(r) :
          Ready(1) /\ requireAuth(1, r, Delete(1, r, g)) /\ UNCHANGED seen
    \/ \E r \in SettingsRequests : \E g \in CsrfGen(r) :
          Ready(1) /\ requireAuth(1, r, Settings(1, r, g)) /\ UNCHANGED seen
    \/ \E r \in LoginRequests : \E g \in CsrfGen(r), tok \in TokenGen(r) :
          Ready(1) /\ Login(1, r, g, tok) /\ UNCHANGED seen
    \/ \E r \in LogoutRequests, e \in BOOLEAN :
          Ready(1) /\ Logout(1, r, e) /\ UNCHANGED seen
    \/ ensureUniqueSlugLoop(1) /\ UNCHANGED web
    \/ insertPost(1) /\ UNCHANGED web
    \/ updateRow(1) /\ UNCHANGED web
    \/ Respond(1)
    \/ Finish(1)
    \/ cleanupExpiredSessions
    \/ now < MaxWebTime /\ Tick

SpecWeb == Init /\ [][NextWeb]_vars

\* the life of the sessions: Login, Logout, one route behind requireAuth,
\* the clock and the purge
NextSessions ==
    \/ \E r \in LoginRequests : \E g \in CsrfGen(r), tok \in TokenGen(r) :
          Ready(1) /\ Login(1, r, g, tok) /\ Note(1)
    \/ \E r \in LogoutRequests, e \in BOOLEAN : Ready(1) /\ Logout(1, r, e) /\ Note(1)
    \/ \E r \in SettingsRequests : \E g \in CsrfGen(r) :
          Ready(1) /\ requireAuth(1, r, Settings(1, r, g)) /\ Note(1)
    \/ Finish(1)
    \/ cleanupExpiredSessions
    \/ Tick

SpecSessions == Init /\ [][NextSessions]_vars

\* ------------------------------------------------ validateCSRF on its own

\* CSRF values have at most MaxCsrfLen characters
MaxCsrfLen == 2

\* the values a csrf cookie or a csrf_token form field can carry
CsrfValues == UNION { [1..k -> {"x", "y"}] : k \in 0..MaxCsrfLen }

\* POSTs to /logout under every csrf cookie (absent, or with a value) and
\* every csrf_token form value
CsrfRequests ==
    { Post("logout", <<>>, s, [cookie |-> c, form |-> f]) :
        s \in SessionCookies, c \in {{}} \cup { {v} : v \in CsrfValues }, f \in CsrfValues }

\* Logout under every CSRF pair
NextCSRF ==
    \/ \E r \in CsrfRequests, e \in BOOLEAN :
          Ready(1) /\ Logout(1, r, e) /\ UNCHANGED seen
    \/ Finish(1)

SpecCSRF == Init /\ [][NextCSRF]_vars

\* ---------------------------------- one caller at a time: drafts, contents

\* with contents and drafts the table never holds an id above MaxRoundPosts
MaxRoundPosts == 2

RoundTitles == { <<"a">>, <<"!">> }
RoundIDs == 1..MaxRoundPosts

NextRound ==
    \/ \E t \in RoundTitles, c \in Contents, b \in BOOLEAN :
           Room(MaxRoundPosts) /\ createPost(1, t, c, b) /\ UNCHANGED web
    \/ \E i \in RoundIDs, t \in RoundTitles, c \in Contents, b \in BOOLEAN :
           updatePost(1, i, t, c, b) /\ UNCHANGED web
    \/ ensureUniqueSlugLoop(1) /\ UNCHANGED web
    \/ insertPost(1) /\ UNCHANGED web
    \/ updateRow(1) /\ UNCHANGED web
    \/ \E i \in RoundIDs : deletePost(1, i) /\ UNCHANGED web

SpecRound == Init /\ [][NextRound]_vars

\* ------------------------------ one caller at a time: drafts, and the clock

NextList ==
    \/ \E b \in BOOLEAN : Room(MaxPosts) /\ createPost(1, <<"a">>, "c1", b) /\ UNCHANGED web
    \/ \E i \in PostIDs, b \in BOOLEAN : updatePost(1, i, <<"a">>, "c1", b) /\ UNCHANGED web
    \/ ensureUniqueSlugLoop(1) /\ UNCHANGED web
    \/ insertPost(1) /\ UNCHANGED web
    \/ updateRow(1) /\ UNCHANGED web
    \/ \E i \in PostIDs : deletePost(1, i) /\ UNCHANGED web
    \/ Tick

SpecList == Init /\ [][NextList]_vars

\* ------------------------------------ the pages: Home and Detail, drafts

PageIDs == { Itoa(i) : i \in RoundIDs } \cup { <<"x">> }

\* / and a path no route takes
HomeRequests ==
    { Get("home", path, s, c) :
        path \in { <<>>, <<"x">> }, s \in SessionCookies, c \in CsrfCookies }

DetailRequests ==
    { Get("detail", i, s, c) : i \in PageIDs, s \in SessionCookies, c \in CsrfCookies }

\* the post form sent with Publish and with Save Draft
DraftRequests ==
    { [PostForm(Post("new", <<>>, s, GoodPair), <<"a">>) EXCEPT !.form.action = a] :
        s \in SessionCookies, a \in {"publish", "draft"} }

\* the login form filled in with the admin's credentials
AdminLogins ==
    { [Post("login", <<>>, {}, GoodPair) EXCEPT !.form.username = "admin",
                                               !.form.password = "password"] }

\* Home and Detail behind one caller, next to Login, Create and the clock
NextPages ==
    \/ \E r \in HomeRequests : \E g \in CsrfGen(r) :
          Ready(1) /\ Home(1, r, g) /\ UNCHANGED seen
    \/ \E r \in DetailRequests : \E g \in CsrfGen(r) :
          Ready(1) /\ Detail(1, r, g) /\ UNCHANGED seen
    \/ \E r \in DraftRequests :
          /\ Ready(1)
          /\ Room(MaxRoundPosts)
          /\ requireAuth(1, r, Create(1, r, <<>>))
          /\ UNCHANGED seen
    \/ \E r \in AdminLogins : \E tok \in TokenGen(r) :
          Ready(1) /\ Login(1, r, <<>>, tok) /\ UNCHANGED seen
    \/ ensureUniqueSlugLoop(1) /\ UNCHANGED web
    \/ insertPost(1) /\ UNCHANGED web
    \/ Respond(1)
    \/ Finish(1)
    \/ Tick

SpecPages == Init /\ [][NextPages]_vars

\* -------------------------------------------------- generateSlug on its own

\* titles have at most MaxTitleLen characters
MaxTitleLen == 4

\* a lower-case letter, an upper-case letter, a digit, the space, the hyphen
\* and a character outside the class of the regexp
TitleChars == {"a", "A", "2", " ", "-", "!"}

SlugTitles == UNION { [1..k -> TitleChars] : k \in 0..MaxTitleLen }

\* updatePost with every title, for an id the table does not hold: the table
\* stays empty
NextSlug ==
    \/ \E t \in SlugTitles : updatePost(1, 1, t, "c1", TRUE) /\ UNCHANGED web
    \/ ensureUniqueSlugLoop(1) /\ UNCHANGED web
    \/ updateRow(1) /\ UNCHANGED web

SpecSlug == Init /\ [][NextSlug]_vars

\* ------------------------ one caller at a time: one title, the freed slugs

stores == <<sessions, now, settings, schema, http>>

NextReuse ==
    \/ Room(MaxPosts) /\ createPost(1, <<"a">>, "c1", TRUE) /\ UNCHANGED web
    \/ \E i \in PostIDs : updatePost(1, i, <<"a">>, "c1", TRUE) /\ UNCHANGED web
    \/ ensureUniqueSlugLoop(1) /\ UNCHANGED web
    \/ insertPost(1) /\ UNCHANGED web
    \/ updateRow(1) /\ UNCHANGED web
    \/ \E i \in PostIDs : deletePost(1, i) /\ NoteFreed(i) /\ UNCHANGED stores

SpecReuse == Init /\ [][NextReuse]_vars

\* ------------------------------------------- startup, then one caller

\* blog.db holds at most MaxLegacyPosts posts when main starts
MaxLegacyPosts == 2

LegacyTitles == { <<"a">>, <<"!">> }

\* the posts tables of a blog.db written before the slug column existed,
\* the empty table of a new blog.db among them; a row without the column
\* reads as ALTER TABLE posts ADD COLUMN slug TEXT leaves it
LegacyTables ==
    UNION { [1..k -> { [title |-> t, slug |-> Null, content |-> "c1",
                        published |-> TRUE, created_at |-> 0] : t \in LegacyTitles }] :
            k \in 0..MaxLegacyPosts }

\* main has opened a blog.db without the slug column
InitStartup ==
    /\ posts \in LegacyTables
    /\ nextID = Cardinality(DOMAIN posts) + 1
    /\ pc = [p \in Procs |-> IF p = 1 THEN "start" ELSE "idle"]
    /\ req = [p \in Procs |-> NoReq]
    /\ loc = [p \in Procs |-> NoLoc]
    /\ res = [p \in Procs |-> NoRes]
    /\ hist = [kept |-> [p \in Procs |-> {}], run |-> NoRun]
    /\ sessions = <<>>
    /\ now = 0
    /\ settings = <<>>
    /\ schema = [slug |-> FALSE, index |-> FALSE]
    /\ http = [p \in Procs |-> NoHTTP]
    /\ seen = [minted |-> {}, reported |-> {}, freed |-> {}]

NextStartup ==
    \/ initDB(1)
    \/ migrateExistingSlugs(1) /\ UNCHANGED web
    \/ migrateSetSlug(1) /\ UNCHANGED web
    \/ migrateDB(1)
    \/ seedDB(1) /\ UNCHANGED web
    \/ seedSettings(1)
    \/ \E e \in BOOLEAN : mainCleanup(1, e)
    \/ ListenAndServe(1)
    \/ exit(1)
    \/ main(1)
    \/ Room(MaxPosts) /\ createPost(1, <<"a">>, "c1", TRUE) /\ UNCHANGED web
    \/ \E i \in PostIDs : updatePost(1, i, <<"a">>, "c1", TRUE) /\ UNCHANGED web
    \/ ensureUniqueSlugLoop(1) /\ UNCHANGED web
    \/ insertPost(1) /\ UNCHANGED web
    \/ updateRow(1) /\ UNCHANGED web
    \/ \E i \in PostIDs : deletePost(1, i) /\ UNCHANGED web

SpecStartup == InitStartup /\ [][NextStartup]_vars

\* ----------------------------------- one caller at a time: the route names

\* the first path segment of the patterns main registers: /static/,
\* /post/{id}, /login, /logout, /new, /edit/{id}, /delete/{id}, /settings
\* (the pattern / has none)
RouteNames ==
    { <<"s","t","a","t","i","c">>,
      <<"p","o","s","t">>,
      <<"l","o","g","i","n">>,
      <<"l","o","g","o","u","t">>,
      <<"n","e","w">>,
      <<"e","d","i","t">>,
      <<"d","e","l","e","t","e">>,
      <<"s","e","t","t","i","n","g","s">> }

\* titles that generate route names: login and post, and the reserved new
RouteTitles ==
    { <<"l","o","g","i","n">>, <<"p","o","s","t">>, <<"n","e","w">> }

NextRoutes ==
    \/ \E t \in RouteTitles : Room(MaxRoundPosts) /\ createPost(1, t, "c1", TRUE) /\ UNCHANGED web
    \/ \E i \in RoundIDs, t \in RouteTitles : updatePost(1, i, t, "c1", TRUE) /\ UNCHANGED web
    \/ ensureUniqueSlugLoop(1) /\ UNCHANGED web
    \/ insertPost(1) /\ UNCHANGED web
    \/ updateRow(1) /\ UNCHANGED web
    \/ \E i \in RoundIDs : deletePost(1, i) /\ UNCHANGED web

SpecRoutes == Init /\ [][NextRoutes]_vars

\* --------------------------------- the process: restarts, Login, the purge

\* the process serves, ends and is started again, over one blog.db
NextPurge ==
    \/ \E r \in AdminLogins : \E tok \in TokenGen(r) :
          Ready(1) /\ Login(1, r, <<>>, tok) /\ Note(1)
    \/ Finish(1)
    \/ Tick
    \/ exit(1)
    \/ main(1)
    \/ initDB(1)
    \/ seedDB(1) /\ UNCHANGED web
    \/ seedSettings(1)
    \/ \E e \in BOOLEAN : mainCleanup(1, e)
    \/ ListenAndServe(1)

SpecPurge == Init /\ [][NextPurge]_vars

\* the process under its scheduling: main goes on from call to call, an
\* answered exchange is finished, time passes; nothing makes the process end
\* or start again, and nothing makes a request arrive
FairPurge ==
    /\ WF_vars(initDB(1))
    /\ WF_vars(seedDB(1) /\ UNCHANGED web)
    /\ WF_vars(seedSettings(1))
    /\ WF_vars(\E e \in BOOLEAN : mainCleanup(1, e))
    /\ WF_vars(ListenAndServe(1))
    /\ WF_vars(Finish(1))
    /\ WF_vars(Tick)

SpecPurgeLive == Init /\ [][NextPurge]_vars /\ FairPurge

\* ------------------------------------------------------------- properties

feed == <<"f","e","e","d">>

\* base-k, written out
WithSuffix(base, k) == base \o <<"-">> \o Itoa(k)

\* base, base-2, base-3, ...: the slugs ensureUniqueSlug can return for base
Family(base) == {base} \cup { WithSuffix(base, k) : k \in 2..(MaxPosts + 2) }

\* the ids of the posts stored by the current run of creates, in call order
RunIDs == (nextID - hist.run.n)..(nextID - 1)

\* the slug the k-th createPost of the current run returned and stored
KthSlug(k) == posts[nextID - hist.run.n + k - 1].slug

\* the slugs of the posts the table held when the current run began
BeforeRun == { posts[i].slug : i \in { j \in DOMAIN posts : j < nextID - hist.run.n } }

C2_NoReservedSlug ==
    /\ \A i \in DOMAIN posts :
          /\ posts[i].slug \notin reservedSlugs
          /\ generateSlug(posts[i].title) \in reservedSlugs
                => \E k \in 2..(MaxPosts + 2) :
                      posts[i].slug = WithSuffix(generateSlug(posts[i].title), k)
    /\ (hist.run.n = 1 /\ DOMAIN posts = {nextID - 1} /\ hist.run.base \in reservedSlugs)
          => posts[nextID - 1].slug = WithSuffix(hist.run.base, 2)

\* C2 witness: createPost("Feed") on an empty table has stored feed-2.
C2_Witness ==
    /\ hist.run = [base |-> feed, n |-> 1]
    /\ DOMAIN posts = {nextID - 1}
    /\ posts[nextID - 1].title = <<"F","e","e","d">>
    /\ posts[nextID - 1].slug = <<"f","e","e","d","-","2">>

\* C3: a createPost whose INSERT hits the uniqueness constraint is retried
\* with the next suffix, so no createPost returns an error.
C3_RacingCreatesSucceed ==
    \A p \in Procs : res[p].op = "create" => res[p].err = ""

\* C4: updatePost with the title the post already has returns the slug the
\* post already had.
C4_SameTitleKeepsSlug ==
    \A p \in Procs :
        (res[p].op = "update" /\ res[p].err = "" /\ hist.kept[p] # {})
            => res[p].slug \in hist.kept[p]

\* C5 as claimed: n successive createPost calls of one title, on a table that
\* holds no post with the base slug, return base, base-2, ..., base-n.
C5_AsClaimed ==
    (hist.run.n >= 1 /\ hist.run.base \notin BeforeRun)
        => \A k \in 1..hist.run.n :
              KthSlug(k) = IF k = 1 THEN hist.run.base ELSE WithSuffix(hist.run.base, k)

\* C5 amended: n successive createPost calls of one title, with no other
\* write in between, on a table that holds neither the base slug nor a
\* suffixed form of it, return base, base-2, ..., base-n when the base is not
\* reserved, and base-2, base-3, ..., base-(n+1) when it is.
C5_SuccessiveSuffixes ==
    (hist.run.n >= 1 /\ Family(hist.run.base) \cap BeforeRun = {})
        => \A k \in 1..hist.run.n :
              KthSlug(k) =
                 IF hist.run.base \in reservedSlugs THEN WithSuffix(hist.run.base, k + 1)
                 ELSE IF k = 1 THEN hist.run.base
                 ELSE WithSuffix(hist.run.base, k)

\* C5 witness: three successive creates of title "a" stored a, a-2, a-3.
C5_Witness ==
    /\ hist.run = [base |-> <<"a">>, n |-> 3]
    /\ Family(<<"a">>) \cap BeforeRun = {}
    /\ KthSlug(3) = <<"a","-","3">>

\* C6: ensureUniqueSlug returns the empty string for the empty base; every
\* stored post has a non-empty slug, a title that generates the empty slug
\* being stored as untitled, untitled-2, untitled-3, ... in call order.
C6_UntitledFallback ==
    /\ \A p \in Procs :
          (pc[p] = "return" /\ loc[p].slug = <<>>) => loc[p].candidate = <<>>
    /\ \A i \in DOMAIN posts :
          /\ posts[i].slug # <<>>
          /\ generateSlug(posts[i].title) = <<>> => posts[i].slug \in Family(untitled)
    /\ (hist.run.n >= 1 /\ hist.run.base = untitled /\ Family(untitled) \cap BeforeRun = {})
          => \A k \in 1..hist.run.n :
                KthSlug(k) = IF k = 1 THEN untitled ELSE WithSuffix(untitled, k)

\* C6 witness: successive creates of the titles "!" and "?" stored untitled
\* and untitled-2.
C6_Witness ==
    /\ hist.run = [base |-> untitled, n |-> 2]
    /\ BeforeRun = {}
    /\ posts[nextID - 2].title = <<"!">> /\ posts[nextID - 2].slug = untitled
    /\ posts[nextID - 1].title = <<"?">>
    /\ posts[nextID - 1].slug = untitled \o <<"-","2">>

\* the routes main wraps in requireAuth
Protected == {"new", "edit", "delete", "settings"}

\* the session cookie of r names a row that has not expired
LiveCookie(r) ==
    \E t \in r.session : t \in DOMAIN sessions /\ sessions[t].expires_at > now

\* the csrf cookie and the csrf_token form value of r are non-empty and equal
PairOK(r) ==
    \E v \in r.csrf : v # <<>> /\ v = r.form.csrf_token

\* caller p takes a request in this step
Takes(p) == http[p].stage = "idle" /\ http'[p].stage # "idle"

\* caller p answers with the redirect to /login
ToLogin(h) == h.stage = "answered" /\ h.status = 303 /\ h.location = "/login"

\* C7: at every time and for every token, getSession returns a session, the
\* row of that token, if and only if the sessions table has a row for the
\* token whose expires_at is later than now; otherwise, an expired row that
\* is still stored included, it returns no session and no error.
C7_GetSessionIffLive ==
    \A t \in Tokens \cup {"nonexistent"} :
        LET got == getSession(t)
        IN  /\ ~got.err
            /\ got.session # {} <=> (t \in DOMAIN sessions /\ sessions[t].expires_at > now)
            /\ \A s \in got.session :
                  s = [token |-> t, user_id |-> 1, expires_at |-> sessions[t].expires_at]

\* C7 witness: one token has an expired row that is still stored and is
\* reported absent, while the session of another token is returned.
C7_Witness ==
    \E t, u \in Tokens :
        /\ t \in DOMAIN sessions /\ sessions[t].expires_at <= now
        /\ getSession(t) = [session |-> {}, err |-> FALSE]
        /\ getSession(u).session # {}

\* the session of token t was stored once and is expired or deleted
Dead(t) ==
    /\ t \in seen.minted
    /\ ~(t \in DOMAIN sessions /\ sessions[t].expires_at > now)

C9_RequireAuthGate ==
    [][ \A p \in Procs :
          (Takes(p) /\ http'[p].r.route \in Protected)
             => IF LiveCookie(http'[p].r)
                THEN ~ToLogin(http'[p])
                ELSE /\ ToLogin(http'[p])
                     /\ pc'[p] = pc[p] /\ req'[p] = req[p]
                     /\ posts' = posts /\ nextID' = nextID /\ settings' = settings ]_vars

\* C9 witness: a POST to /delete with a valid CSRF pair and the cookie of an
\* expired session was sent to /login, and the post it names is still there.
C9_Witness ==
    \E p \in Procs :
        /\ ToLogin(http[p])
        /\ http[p].r.route = "delete" /\ http[p].r.method = "POST"
        /\ PairOK(http[p].r)
        /\ \E t \in http[p].r.session :
              t \in DOMAIN sessions /\ sessions[t].expires_at <= now
        /\ http[p].r.id = <<"1">> /\ 1 \in DOMAIN posts

\* the request gets as far as validateCSRF: through requireAuth, strconv.Atoi
\* and r.ParseForm
ReachesValidation(r) ==
    /\ r.route \in Protected => LiveCookie(r)
    /\ r.route \in {"edit", "delete"} => r.id \in { Itoa(i) : i \in 1..MaxWebPosts }
    /\ ~r.parseErr

\* C10: a POST to Create, Edit, Delete, Settings, Login or Logout whose CSRF
\* pair is not valid changes no post, session or setting, and is answered 403
\* when it gets as far as the validation; the posts, sessions and settings
\* change only while a POST with a valid pair is served, or by the purge.
C10_CsrfBeforeMutation ==
    [][ /\ \A p \in Procs :
              (Takes(p) /\ http'[p].r.method = "POST" /\ ~PairOK(http'[p].r))
                 => /\ posts' = posts /\ nextID' = nextID
                    /\ sessions' = sessions /\ settings' = settings
                    /\ pc'[p] = pc[p]
                    /\ http'[p].stage = "answered"
                    /\ ReachesValidation(http'[p].r) => http'[p].status = 403
                    /\ ~ReachesValidation(http'[p].r)
                          => \/ http'[p].status = 400
                             \/ ToLogin(http'[p])
        /\ (posts' # posts \/ settings' # settings \/ sessions' # sessions)
              => \/ \E p \in Procs :
                       /\ http'[p].stage # "idle"
                       /\ http'[p].r.method = "POST"
                       /\ PairOK(http'[p].r)
                 \/ /\ http' = http
                    /\ posts' = posts /\ settings' = settings
                    /\ DOMAIN sessions' \subseteq DOMAIN sessions ]_vars

\* C10 witness: a POST to /delete with a live session and two different CSRF
\* values was answered 403, and the post it names is still there.
C10_Witness ==
    \E p \in Procs :
        /\ http[p].stage = "answered" /\ http[p].status = 403
        /\ http[p].r.route = "delete" /\ http[p].r.method = "POST"
        /\ LiveCookie(http[p].r)
        /\ http[p].r.csrf = {<<"x">>} /\ http[p].r.form.csrf_token = <<"y">>
        /\ http[p].r.id = <<"1">> /\ 1 \in DOMAIN posts

\* the pair of request r: cookie value (empty without the cookie), form value
CookieOf(r) == IF r.csrf = {} THEN <<>> ELSE CHOOSE v \in r.csrf : TRUE
FormOf(r) == r.form.csrf_token

\* C11: validateCSRF returns true if and only if the csrf cookie value and
\* the submitted form value are both non-empty and exactly equal; it returns
\* false when either is empty, when the lengths differ, and when values of
\* equal length differ in a single character. Logout answers 403 exactly
\* when it returns false.
C11_ValidateCSRFExact ==
    \A p \in Procs :
        (http[p].stage = "answered" /\ http[p].r.route = "logout")
           => LET r == http[p].r
                  c == CookieOf(r)
                  f == FormOf(r)
              IN  /\ validateCSRF(r) <=> (c # <<>> /\ f # <<>> /\ c = f)
                  /\ (c = <<>> \/ f = <<>>) => ~validateCSRF(r)
                  /\ Len(c) # Len(f) => ~validateCSRF(r)
                  /\ (Len(c) = Len(f) /\ \E i \in 1..Len(c) : c[i] # f[i]) => ~validateCSRF(r)
                  /\ http[p].status = 403 <=> ~validateCSRF(r)
                  /\ http[p].status = 403 <=> ~(c # <<>> /\ f # <<>> /\ c = f)

\* C11 witness: a cookie and a form value of equal length that differ in
\* their last character only were refused.
C11_Witness ==
    \E p \in Procs :
        /\ http[p].stage = "answered" /\ http[p].status = 403
        /\ http[p].r.csrf = { <<"x", "y">> }
        /\ http[p].r.form.csrf_token = <<"x", "x">>

\* a well-formed POST to /login
LoginPost(r) == r.route = "login" /\ r.method = "POST" /\ ~r.parseErr

\* the credentials of r are the admin's
AdminCredentials(r) == r.form.username = "admin" /\ r.form.password = "password"

\* C12 as claimed: a Login POST adds a session row if and only if its CSRF
\* pair is valid, its username is the admin's and its password verifies.
C12_AsClaimed ==
    [][ \A p \in Procs :
          (Takes(p) /\ LoginPost(http'[p].r))
             => (sessions' # sessions
                    <=> (PairOK(http'[p].r) /\ AdminCredentials(http'[p].r))) ]_vars

\* C12 amended: a Login POST adds a session row only if its CSRF pair is
\* valid, its username is the admin's and its password verifies; it then adds
\* exactly one row, for user 1 and the token of the session cookie it sets,
\* and redirects, unless createSession fails (generateToken fails or returns
\* a token the table holds): then the response is 500, no row is added and no
\* cookie is set. On a credential failure the response is 401, no row is
\* added and no session cookie is set.
C12_LoginAddsSession ==
    [][ \A p \in Procs :
          (Takes(p) /\ LoginPost(http'[p].r))
             => LET r == http'[p].r
                    h == http'[p]
                IN  /\ sessions' # sessions => (PairOK(r) /\ AdminCredentials(r))
                    /\ (PairOK(r) /\ AdminCredentials(r))
                          => \/ /\ h.status = 303 /\ h.location = "/"
                                /\ \E t \in Tokens \ DOMAIN sessions :
                                      /\ h.setSession = {t}
                                      /\ DOMAIN sessions' = DOMAIN sessions \cup {t}
                                      /\ sessions'[t] = [user_id |-> 1,
                                                         expires_at |-> now + sessionDuration]
                                      /\ \A u \in DOMAIN sessions : sessions'[u] = sessions[u]
                             \/ /\ h.status = 500
                                /\ h.setSession = {}
                                /\ sessions' = sessions
                    /\ (PairOK(r) /\ ~AdminCredentials(r))
                          => /\ h.status = 401
                             /\ h.setSession = {}
                             /\ sessions' = sessions ]_vars

\* C12 witness: a Login POST with a valid CSRF pair and the admin's
\* credentials was answered with the redirect and the cookie of a stored,
\* unexpired session.
C12_Witness ==
    \E p \in Procs :
        /\ http[p].stage = "answered" /\ LoginPost(http[p].r)
        /\ PairOK(http[p].r) /\ AdminCredentials(http[p].r)
        /\ http[p].status = 303
        /\ \E t \in http[p].setSession :
              t \in DOMAIN sessions /\ sessions[t].expires_at > now

\* C13: once a Logout POST with a valid CSRF pair has answered with its 303
\* redirect, the session cookie is cleared and getSession returns no session
\* for the token the request presented.
C13_LogoutInvalidates ==
    \A p \in Procs :
        LET h == http[p]
        IN  (/\ h.stage = "answered"
             /\ h.r.route = "logout" /\ h.r.method = "POST"
             /\ PairOK(h.r) /\ h.status = 303)
               => /\ h.setSession = {""}
                  /\ \A t \in h.r.session : getSession(t).session = {}

\* table tbl without the row of id
Without(tbl, id) == [i \in DOMAIN tbl \ {id} |-> tbl[i]]

\* C14: deletePost on an id without a row returns no error and leaves every
\* post as it is; deleting an id twice leaves the table that deleting it once
\* leaves. Every deletePost call returns without error, the table short of
\* at most the row of its id.
C14_DeleteIdempotent ==
    [][ /\ \A id \in 1..(MaxPosts + 1) :
              /\ DeleteRows(posts, id) = Without(posts, id)
              /\ id \notin DOMAIN posts => DeleteRows(posts, id) = posts
              /\ DeleteRows(DeleteRows(posts, id), id) = DeleteRows(posts, id)
        /\ \A p \in Procs :
              (res'[p].op = "delete" /\ (res'[p] # res[p] \/ posts' # posts))
                 => /\ res'[p].err = ""
                    /\ pc'[p] = "done"
                    /\ nextID' = nextID
                    /\ \E id \in 1..(MaxPosts + 1) :
                          /\ posts' = Without(posts, id)
                          /\ \A i \in DOMAIN posts' : posts'[i] = posts[i] ]_vars

\* C14 witness: deletePost has returned without error, post 1 is deleted and
\* post 2 is stored as it was created.
C14_Witness ==
    \E p \in Procs :
        /\ res[p] = [op |-> "delete", slug |-> <<>>, err |-> ""]
        /\ nextID = 3
        /\ DOMAIN posts = {2}

\* C15: whatever the title, the content and the published flag, and whatever
\* the table holds, when createPost returns slug s without an error,
\* getPostBySlug(s) on the table createPost leaves returns a post, and that
\* post has the title, the content and the published flag of the call and
\* the slug s.
C15_RoundTrip ==
    [][ \A p \in Procs :
          (pc[p] = "insert" /\ pc'[p] = "done" /\ res'[p].err = "")
              => LET s == res'[p].slug
                     got == getPostBySlug(posts', s)
                 IN  /\ got # {}
                     /\ \A g \in got : /\ g.title = req[p].title
                                       /\ g.content = req[p].content
                                       /\ g.published = req[p].published
                                       /\ g.slug = s ]_vars

\* a second post has been created as a draft with the other content, under a
\* title without a slug, next to a published post
C15_Witness ==
    /\ res[1] = [op |-> "create", slug |-> untitled, err |-> ""]
    /\ DOMAIN posts = {1, 2}
    /\ posts[1].published /\ posts[1].content = "c1"
    /\ ~posts[2].published /\ posts[2].content = "c2" /\ posts[2].title = <<"!">>
    /\ posts[2].slug = untitled

\* the ids of a list of posts, in the order of the list
IDsOf(list) == [k \in 1..Len(list) |-> list[k].id]

\* C16: getPosts returns every stored post exactly once, with the columns of
\* its row, ordered by created_at descending and, among equal created_at, by
\* id descending; getPublishedPosts returns the published posts of that list
\* and no other, in the order of that list.
C16_ListOrder ==
    LET all == getPosts(posts)
        pub == getPublishedPosts(posts)
    IN  /\ Len(all) = Cardinality(DOMAIN posts)
        /\ { all[k].id : k \in 1..Len(all) } = DOMAIN posts
        /\ \A k \in 1..Len(all) :
               LET row == posts[all[k].id]
               IN  /\ all[k].title = row.title /\ all[k].slug = row.slug
                   /\ all[k].content = row.content
                   /\ all[k].published = row.published
                   /\ all[k].created_at = row.created_at
        /\ \A k, l \in 1..Len(all) :
               k < l => \/ all[k].created_at > all[l].created_at
                        \/ /\ all[k].created_at = all[l].created_at
                           /\ all[k].id > all[l].id
        /\ pub = SelectSeq(all, LAMBDA x : x.published)

\* three posts are stored, the last two created at the same time and later
\* than the first, and the middle one is a draft
C16_Witness ==
    /\ DOMAIN posts = {1, 2, 3}
    /\ posts[1].created_at < posts[2].created_at
    /\ posts[2].created_at = posts[3].created_at
    /\ posts[1].published /\ ~posts[2].published /\ posts[3].published
    /\ IDsOf(getPosts(posts)) = <<3, 2, 1>>
    /\ IDsOf(getPublishedPosts(posts)) = <<3, 1>>

\* the ids of the stored posts that are published, that are drafts
PublishedIDs == { i \in DOMAIN posts : posts[i].published }
DraftIDs == { i \in DOMAIN posts : ~posts[i].published }

\* the ids of the posts in a list
ListedIDs(list) == { list[k].id : k \in 1..Len(list) }

\* the ids of the posts that the data of a page holds
ShownIDs(data) ==
    ListedIDs(data.Posts) \cup ListedIDs(data.Drafts) \cup { x.id : x \in data.Post }

\* C17: a request whose session cookie is missing or names no stored,
\* unexpired session is never answered with a draft: Detail answers 404 for a
\* draft, and Home's page holds the published posts and no other. A request
\* with a valid session gets the draft from Detail with status 200, and from
\* Home a page with every stored post, the drafts among them.
C17_DraftsNeedSession ==
    \A p \in Procs :
        LET h == http[p]
            valid == LiveCookie(h.r)
            home == h.r.route = "home" /\ h.r.id = <<>>
        IN  (h.stage = "answered" /\ h.r.route \in {"home", "detail"}) =>
              /\ ~valid => /\ ShownIDs(h.data) \cap DraftIDs = {}
                           /\ home => /\ h.status = 200
                                      /\ ShownIDs(h.data) = PublishedIDs
              /\ valid /\ home => /\ h.status = 200
                                  /\ ListedIDs(h.data.Posts) = PublishedIDs
                                  /\ ListedIDs(h.data.Drafts) = DraftIDs
              /\ \A i \in DraftIDs :
                    (h.r.route = "detail" /\ h.r.id = Itoa(i)) =>
                        IF valid
                        THEN /\ h.status = 200
                             /\ \E x \in h.data.Post :
                                   x.id = i /\ x.title = posts[i].title /\ ~x.published
                        ELSE h.status = 404 /\ h.data = NoData

\* a published post and a draft are stored; Home has answered a request whose
\* cookie names a session that is stored and has expired, with the published
\* post alone
C17_Witness ==
    /\ http[1].stage = "answered" /\ http[1].r.route = "home" /\ http[1].status = 200
    /\ \E t \in http[1].r.session :
          t \in DOMAIN sessions /\ sessions[t].expires_at <= now
    /\ PublishedIDs # {} /\ DraftIDs # {}
    /\ ListedIDs(http[1].data.Posts) = PublishedIDs
    /\ http[1].data.Drafts = <<>>

\* the characters of [a-z0-9]
Alnum == Lower \cup { Digits[i] : i \in 1..10 }

\* s matches ^[a-z0-9]+(-[a-z0-9]+)*$: characters of [a-z0-9] and hyphens,
\* at least one character, no hyphen first or last, no two hyphens in a row
MatchesSlugPattern(s) ==
    /\ s # <<>>
    /\ \A i \in 1..Len(s) : s[i] \in Alnum \cup {"-"}
    /\ s[1] # "-" /\ s[Len(s)] # "-"
    /\ \A i \in 1..(Len(s) - 1) : ~(s[i] = "-" /\ s[i + 1] = "-")

\* C18: for every title that updatePost is called with, generateSlug(title)
\* is the empty string or matches ^[a-z0-9]+(-[a-z0-9]+)*$: groups of one or
\* more characters of [a-z0-9] separated by single hyphens, without a
\* leading, a trailing or a doubled hyphen.
C18_SlugShape ==
    \A p \in Procs :
        req[p].op = "update" =>
            LET slug == generateSlug(req[p].title)
            IN  slug = <<>> \/ MatchesSlugPattern(slug)

\* updatePost has been called with the title "-A -", whose slug a was
\* lowered and trimmed on both sides
C18_Witness ==
    /\ req[1].op = "update" /\ req[1].title = <<"-", "A", " ", "-">>
    /\ pc[1] = "update"
    /\ loc[1].candidate = <<"a">>

\* C19: a slug base-k freed by deletePost while another post of that base
\* stayed is not returned again by a later createPost or updatePost for the
\* same base.
C19_NoReuse ==
    [][ \A p \in Procs :
          (pc[p] \in {"insert", "update"} /\ pc'[p] = "done" /\ res'[p].err = "")
              => <<loc[p].slug, res'[p].slug>> \notin seen.freed ]_vars

\* initDB has returned without an error: main is past the migration
InitDBDone ==
    /\ pc[1] \notin {"start", "migrate", "setslug", "fatal", "stopped"}
    /\ req[1].op # "migrate"

\* C20: once initDB has run, every post row has a slug that is not NULL, the
\* rows that were stored before the slug column existed and the rows of
\* seedDB included, through startup and the post operations after it.
C20_SlugNeverNull ==
    InitDBDone => \A i \in DOMAIN posts : posts[i].slug # Null

\* C21: the reserved set of the allocator is the set of the route names that
\* main registers, and no post is stored by createPost or updatePost under a
\* slug that is the first path segment of a registered route.
C21_ReservedAreRoutes ==
    /\ reservedSlugs = RouteNames
    /\ \A i \in DOMAIN posts : posts[i].slug \notin RouteNames

\* C22: a store error met while a request is served ends the request with a
\* server error. For Logout: when deleteSession fails, so that the row of the
\* token the request presented is still stored after the handler has run,
\* the answer is 500 and not the redirect of a successful logout.
C22_StoreErrorsSurface ==
    [][ \A p \in Procs :
          (/\ Takes(p)
           /\ http'[p].r.route = "logout" /\ http'[p].r.method = "POST"
           /\ ~http'[p].r.parseErr /\ PairOK(http'[p].r)
           /\ \E t \in http'[p].r.session :
                 t \in DOMAIN sessions /\ t \in DOMAIN sessions')
              => http'[p].status = 500 ]_vars

\* main's call of cleanupExpiredSessions returns without an error in this step
Purges == pc[1] = "purge" /\ pc'[1] = "routes"

\* C23: when cleanupExpiredSessions has run at time now, the sessions table
\* holds no row with expires_at <= now, a row whose expires_at equals now
\* included.
C23_PurgeRemovesAllExpired ==
    [][ Purges => \A t \in DOMAIN sessions' : sessions'[t].expires_at > now ]_vars

\* the process runs: main has not ended
Running == pc[1] \notin {"fatal", "stopped"}

\* C24: while the process keeps running, a session row whose expires_at has
\* passed is eventually deleted: from every state that holds such a row the
\* process reaches a state without the row, unless it ends first.
C24_ExpiredEventuallyPurged ==
    \A t \in Tokens :
        [](  (Running /\ t \in DOMAIN sessions /\ sessions[t].expires_at < now)
             => <>(t \notin DOMAIN sessions \/ ~Running) )

\* C25: a purge that fails is not fatal: whenever main's call of
\* cleanupExpiredSessions returns, with or without an error, main goes on to
\* register its routes and to serve.
C25_PurgeFailureNotFatal ==
    [][ (pc[1] = "purge" /\ pc'[1] # "purge") => pc'[1] \in {"routes", "stopped"} ]_vars

\* C26: createSession does not overwrite a session. With a minted token that
\* the sessions table holds, on a live row or on an expired one that has not
\* been purged, it returns an error and no token and leaves the table as it
\* is; and no step of the server changes the user_id or the expires_at of a
\* row that stays.
C26_NoOverwrite ==
    [][ /\ \A g \in GeneratedTokens :
              (~g.err /\ g.token \in DOMAIN sessions)
                  => LET made == createSession(g, 1)
                     IN  made.err /\ made.token = "" /\ made.table = sessions
        /\ \A t \in DOMAIN sessions \cap DOMAIN sessions' :
              sessions'[t] = sessions[t] ]_vars

\* every token is stored, one of them on an expired row, and a Login with the
\* admin's credentials and a valid CSRF pair has been answered 500
C26_Witness ==
    /\ http[1].stage = "answered" /\ LoginPost(http[1].r)
    /\ PairOK(http[1].r) /\ AdminCredentials(http[1].r)
    /\ http[1].status = 500 /\ http[1].setSession = {}
    /\ DOMAIN sessions = Tokens
    /\ \E t \in Tokens : sessions[t].expires_at <= now
    /\ \E t \in Tokens : sessions[t].expires_at > now

\* C27: once initDB has returned without an error, blog.db has the unique
\* index on posts.slug, whatever it held before: no posts, a migrated table,
\* a table without the slug column, or what an initDB run left that ended
\* after adding the column and before creating the index.
C27_IndexAfterInitDB ==
    InitDBDone => schema.index

\* the k-th candidate of ensureUniqueSlug for base: base, base-2, base-3, ...
Candidate(base, k) == IF k = 1 THEN base ELSE WithSuffix(base, k)

\* a post other than excludeID holds slug
HeldByOther(slug, excludeID) ==
    \E i \in DOMAIN posts : posts[i].slug = slug /\ (excludeID > 0 => i # excludeID)

\* C28: for a non-empty base, the loop of ensureUniqueSlug tries base,
\* base-2, base-3, ... and never more than (number of stored posts + 2)
\* candidates, so it terminates; the candidate it returns is neither reserved
\* nor the slug of a post other than excludeID, and every candidate before it
\* is one or the other.
C28_FirstFreeCandidate ==
    \A p \in Procs :
        LET l == loc[p]
            tried == l.suffix - 1
        IN  (pc[p] \in {"unique", "insert", "update", "return"} /\ l.slug # <<>>) =>
              /\ l.candidate = Candidate(l.slug, tried)
              /\ tried <= Cardinality(DOMAIN posts) + 2
              /\ \A k \in 1..(tried - 1) :
                    \/ Candidate(l.slug, k) \in reservedSlugs
                    \/ HeldByOther(Candidate(l.slug, k), l.excludeID)
              /\ pc[p] # "unique" =>
                    /\ l.candidate \notin reservedSlugs
                    /\ ~HeldByOther(l.candidate, l.excludeID)

\* with feed-2 and feed-3 stored, createPost of the reserved base feed has
\* tried four candidates, two more than there are posts, and returns feed-4
C28_Witness ==
    /\ pc[1] = "insert" /\ loc[1].slug = feed
    /\ Cardinality(DOMAIN posts) = 2
    /\ loc[1].suffix = 5
    /\ loc[1].candidate = WithSuffix(feed, 4)

\* the session rows of tbl that getSession returns at time t
Valid(tbl, t) == { u \in DOMAIN tbl : tbl[u].expires_at > t }

\* C29: sessions are independent of each other. A Login answered with the
\* redirect to / adds exactly one session row and leaves every row stored
\* before unchanged; a request to /logout removes no row but the one whose
\* token its session cookie presents; so every other session that was valid
\* before the request is valid after it, with the same user_id and expires_at.
C29_SessionsIndependent ==
    [][ \A p \in Procs :
          LET r == http'[p].r
              others == DOMAIN sessions \ r.session
          IN  /\ (Takes(p) /\ LoginPost(r) /\ http'[p].status = 303) =>
                    /\ \E t \in Tokens \ DOMAIN sessions :
                          DOMAIN sessions' = DOMAIN sessions \cup {t}
                    /\ \A t \in DOMAIN sessions : sessions'[t] = sessions[t]
                    /\ Valid(sessions, now) \subseteq Valid(sessions', now')
              /\ (Takes(p) /\ r.route = "logout") =>
                    /\ DOMAIN sessions' \subseteq DOMAIN sessions
                    /\ others \subseteq DOMAIN sessions'
                    /\ \A t \in others : sessions'[t] = sessions[t]
                    /\ Valid(sessions, now) \ r.session \subseteq Valid(sessions', now') ]_vars

\* both tokens were handed out by Login; a Logout that presented one of them
\* has been answered and its row is gone, the other session is still valid
C29_Witness ==
    /\ http[1].stage = "answered" /\ http[1].r.route = "logout"
    /\ http[1].r.method = "POST" /\ http[1].status = 303
    /\ seen.minted = Tokens
    /\ http[1].r.session # {}
    /\ http[1].r.session \cap DOMAIN sessions = {}
    /\ \E t \in Tokens \ http[1].r.session : t \in Valid(sessions, now)

\* a step of cleanupExpiredSessions that deletes: no request is taken or
\* answered, the clock stands, and the sessions table changes
PurgeDeletes == sessions' # sessions /\ UNCHANGED <<http, now>>

\* C30: the purge never removes a live session: every row that getSession
\* returns at the instant cleanupExpiredSessions runs (expires_at > now) is
\* stored and unchanged afterwards, and getSession still returns it.
C30_PurgeKeepsLive ==
    [][ PurgeDeletes =>
          /\ DOMAIN sessions' \subseteq DOMAIN sessions
          /\ \A t \in Valid(sessions, now) :
                /\ t \in DOMAIN sessions'
                /\ sessions'[t] = sessions[t]
                /\ t \in Valid(sessions', now') ]_vars

\* main has just purged: of the two tokens Login handed out, the row of one
\* had expired and is gone, the row of the other is live and stored
C30_Witness ==
    /\ pc[1] = "routes"
    /\ seen.minted = Tokens
    /\ \E t \in Tokens : t \notin DOMAIN sessions
    /\ \E t \in Tokens : t \in Valid(sessions, now)

====
